---- MODULE Spec2Model ----
(***************************************************************************)
(* Relational-operand trees of datajoint/relational_operand.py: the nodes  *)
(* (base relation, Join, Projection, Subquery), their restriction lists,   *)
(* the operators that build them, the compilation of a tree into a SELECT   *)
(* statement and its execution by the connection.                          *)
(*                                                                         *)
(* Objects live in two heaps: nodes (relation objects) and lists (Python   *)
(* list objects held in _restrictions), so that two nodes holding the same *)
(* list object is visible.  A node's rl field is the index of its list, or *)
(* 0 when _restrictions is None.                                           *)
(***************************************************************************)
EXTENDS Integers, Sequences, FiniteSets, TLC

VARIABLES nodes, lists, counter, minted, db, last, steps

vars == <<nodes, lists, counter, minted, db, last, steps>>

(***************************************************************************)
(* Bounds of the model.                                                    *)
(***************************************************************************)
MaxOps == 2
MaxNodes == 6
MaxLen == 3
MaxCounter == 18

(***************************************************************************)
(* Values.  A stored value is its SQL literal text; NULL is SQL's null.    *)
(* A blob column holds packed bytes, which unpack decodes.                 *)
(***************************************************************************)
NULL == "NULL"

None == [t |-> "None"]

Dict(m) == [t |-> "dict", m |-> m]

Void(m) == [t |-> "void", m |-> m]

List(items) == [t |-> "list", items |-> items]

Array(items) == [t |-> "ndarray", items |-> items]

Rel(n) == [t |-> "rel", n |-> n]

Str(s) == [t |-> "str", s |-> s]

IntVal(i) == [t |-> "int", i |-> i]

\* class Not: a marker holding one wrapped restriction
Not(r) == [t |-> "Not", restriction |-> r]

(***************************************************************************)
(* Headings (datajoint.Heading, consumed through its interface).  A        *)
(* heading is a sequence of attributes; expr is the SQL expression an      *)
(* attribute is computed from ("" when it is a plain column).              *)
(***************************************************************************)
Attr(name, pk, blob, expr) == [name |-> name, pk |-> pk, blob |-> blob, expr |-> expr]

TableHeading(t) ==
    IF t = "A"
    THEN << Attr("id", TRUE, FALSE, ""), Attr("a", FALSE, FALSE, "") >>
    ELSE << Attr("id", TRUE, FALSE, ""), Attr("b", FALSE, TRUE, "") >>

Names(hd) == [i \in 1..Len(hd) |-> hd[i].name]

NameSet(hd) == {hd[i].name : i \in 1..Len(hd)}

PrimaryKey(hd) == {hd[i].name : i \in {j \in 1..Len(hd) : hd[j].pk}}

Computed(hd) == \E i \in 1..Len(hd) : hd[i].expr # ""

HeadingAttr(hd, name) == hd[CHOOSE i \in 1..Len(hd) : hd[i].name = name]

Resolve(hd) == [i \in 1..Len(hd) |-> [hd[i] EXCEPT !.expr = ""]]

HeadingJoin(h1, h2) ==
    h1 \o SelectSeq(h2, LAMBDA x : x.name \notin NameSet(h1))

\* a projection argument after the alias parser: a plain name (alias = "")
\* or "expr -> alias"
Plain(name) == [expr |-> name, alias |-> ""]

Alias(expr, alias) == [expr |-> expr, alias |-> alias]

HeadingProject(hd, attributes, renamed) ==
    SelectSeq(hd, LAMBDA x : x.pk \/ x.name \in {attributes[i] : i \in 1..Len(attributes)})
    \o [i \in 1..Len(renamed) |->
          Attr(renamed[i].alias, FALSE, HeadingAttr(hd, renamed[i].expr).blob, renamed[i].expr)]

(***************************************************************************)
(* Nodes.                                                                  *)
(***************************************************************************)
Base(t, conn) ==
    [kind |-> "Base", table |-> t, conn |-> conn, arg1 |-> 0, arg2 |-> 0, left |-> FALSE,
     attributes |-> <<>>, renamed |-> <<>>, rl |-> 0]

JoinNode(a1, a2, left, rl) ==
    [kind |-> "Join", table |-> "", conn |-> 0, arg1 |-> a1, arg2 |-> a2, left |-> left,
     attributes |-> <<>>, renamed |-> <<>>, rl |-> rl]

ProjectionNode(arg, attributes, renamed, rl) ==
    [kind |-> "Projection", table |-> "", conn |-> 0, arg1 |-> arg, arg2 |-> 0, left |-> FALSE,
     attributes |-> attributes, renamed |-> renamed, rl |-> rl]

\* Subquery.__init__: only _arg is set; _restrictions stays the class's None
SubqueryNode(arg) ==
    [kind |-> "Subquery", table |-> "", conn |-> 0, arg1 |-> arg, arg2 |-> 0, left |-> FALSE,
     attributes |-> <<>>, renamed |-> <<>>, rl |-> 0]

Heap(ns, ls) == [nodes |-> ns, lists |-> ls]

\* the heading property of each node kind
RECURSIVE heading(_, _)
heading(ns, n) ==
    LET x == ns[n] IN
    CASE x.kind = "Base" -> TableHeading(x.table)
      [] x.kind = "Join" -> HeadingJoin(heading(ns, x.arg1), heading(ns, x.arg2))
      [] x.kind = "Projection" ->
            HeadingProject(heading(ns, x.arg1), x.attributes, x.renamed)
      [] OTHER -> Resolve(heading(ns, x.arg1))

\* the connection property of each node kind
RECURSIVE connection(_, _)
connection(ns, n) ==
    IF ns[n].kind = "Base" THEN ns[n].conn ELSE connection(ns, ns[n].arg1)

\* the restrictions property: [] when _restrictions is None
restrictions(h, n) == IF h.nodes[n].rl = 0 THEN <<>> ELSE h.lists[h.nodes[n].rl]

(***************************************************************************)
(* Restriction operators.  Each takes the heap and returns the new heap    *)
(* with ret, the node returned (0 for None).                               *)
(***************************************************************************)
Result(ns, ls, ret) == [nodes |-> ns, lists |-> ls, ret |-> ret]

\* the entries _restrict adds to the list for a restriction
Added(c) ==
    CASE c.t = "None" -> <<>>
      [] c.t = "list" -> c.items
      [] OTHER -> <<c>>

\* RelationalOperand._restrict
BaseRestrict(h, n, c) ==
    IF c.t = "None" THEN Result(h.nodes, h.lists, n)
    ELSE LET fresh == h.nodes[n].rl = 0
             l == IF fresh THEN Len(h.lists) + 1 ELSE h.nodes[n].rl
             ls0 == IF fresh THEN Append(h.lists, <<>>) ELSE h.lists
             ns0 == [h.nodes EXCEPT ![n].rl = l]
         IN Result(ns0, [ls0 EXCEPT ![l] = @ \o Added(c)], n)

\* copy(self); ret._restrictions = list(ret.restrictions): a new node with
\* the fields of x and a new list holding the entries of x's list
CopyWithList(h, x) ==
    LET k == Len(h.nodes) + 1
        l == Len(h.lists) + 1
        old == IF x.rl = 0 THEN <<>> ELSE h.lists[x.rl]
    IN Result(Append(h.nodes, [x EXCEPT !.rl = l]), Append(h.lists, old), k)

\* Projection._restrict as it would be without the override: the inherited
\* RelationalOperand._restrict, which adds to the Projection's own list
RestrictInherited(h, n, c) == BaseRestrict(h, n, c)

\* Projection._restrict on top of RelationalOperand._restrict: a Projection
\* whose heading is computed hands the restriction to Subquery(self) & c,
\* and Subquery.__and__ is RelationalOperand.__and__ on that new Subquery
Restrict(h, n, c) ==
    IF h.nodes[n].kind = "Projection" /\ Computed(heading(h.nodes, n))
    THEN LET s == CopyWithList(h, SubqueryNode(n))
         IN BaseRestrict(Heap(s.nodes, s.lists), s.ret, c)
    ELSE BaseRestrict(h, n, c)

\* RelationalOperand.__iand__
IAndOp(h, n, c) == Restrict(h, n, c)

\* __and__ as it would be without the line that copies the list: the copy
\* keeps the list object of the original
AndSharingList(h, n, c) ==
    IAndOp(Heap(Append(h.nodes, h.nodes[n]), h.lists), Len(h.nodes) + 1, c)

\* RelationalOperand.__and__
AndOp(h, n, c) ==
    LET r == CopyWithList(h, h.nodes[n])
    IN IAndOp(Heap(r.nodes, r.lists), r.ret, c)

\* RelationalOperand.__isub__
ISubOp(h, n, c) == IAndOp(h, n, Not(c))

\* RelationalOperand.__sub__
SubOp(h, n, c) == AndOp(h, n, Not(c))

(***************************************************************************)
(* Constructors.                                                           *)
(***************************************************************************)
PlainNames(attributes) ==
    SelectSeq(attributes, LAMBDA x : x.alias = "")

Renamed(attributes) ==
    SelectSeq(attributes, LAMBDA x : x.alias # "")

\* Projection.__init__
ProjectionInit(h, arg, attributes) ==
    LET plain == [i \in 1..Len(PlainNames(attributes)) |-> PlainNames(attributes)[i].expr]
        renamed == Renamed(attributes)
    IN IF Computed(heading(h.nodes, arg))
       THEN LET s == Len(h.nodes) + 1
            IN Result(h.nodes \o << SubqueryNode(arg), ProjectionNode(s, plain, renamed, 0) >>,
                      h.lists, s + 1)
       ELSE IF h.nodes[arg].rl = 0
            THEN Result(Append(h.nodes, ProjectionNode(arg, plain, renamed, Len(h.lists) + 1)),
                        Append(h.lists, <<>>), Len(h.nodes) + 1)
            ELSE Result(Append(h.nodes, ProjectionNode(arg, plain, renamed, h.nodes[arg].rl)),
                        h.lists, Len(h.nodes) + 1)

\* RelationalOperand.project
ProjectOp(h, n, attributes) == ProjectionInit(h, n, attributes)

\* Join.__init__ past its two checks
JoinInit(h, arg1, arg2, left) ==
    LET c1 == Computed(heading(h.nodes, arg1))
        c2 == Computed(heading(h.nodes, arg2))
        ns1 == IF c1 THEN Append(h.nodes, SubqueryNode(arg1)) ELSE h.nodes
        a1 == IF c1 THEN Len(ns1) ELSE arg1
        ns2 == IF c2 THEN Append(ns1, SubqueryNode(arg1)) ELSE ns1
        a2 == IF c2 THEN Len(ns2) ELSE arg2
        h2 == Heap(ns2, h.lists)
        l == Len(h.lists) + 1
    IN Result(Append(ns2, JoinNode(a1, a2, left, l)),
              Append(h.lists, restrictions(h2, a1) \o restrictions(h2, a2)),
              Len(ns2) + 1)

\* the two checks of Join.__init__; other = 0 stands for a value that is
\* not a relation
JoinError(h, arg1, other) ==
    IF other = 0 THEN "DataJointError"
    ELSE IF connection(h.nodes, arg1) # connection(h.nodes, other) THEN "DataJointError"
    ELSE ""

(***************************************************************************)
(* Compilation.  The SQL text is kept as its syntax tree.  Each operator   *)
(* takes the value of Subquery.__counter and returns it as left by the     *)
(* rendering, with the aliases minted on the way and the Python error      *)
(* raised, if any ("" for none).                                           *)
(***************************************************************************)
HexDigits == << "0", "1", "2", "3", "4", "5", "6", "7", "8", "9", "a", "b", "c", "d", "e", "f" >>

\* '%x' % n
RECURSIVE Hex(_)
Hex(n) ==
    IF n < 16 THEN << HexDigits[n + 1] >>
    ELSE Hex(n \div 16) \o << HexDigits[(n % 16) + 1] >>

\* the counter property as it would be without the increment
CounterRead(ctr) == ctr

\* the value of the counter property of a Subquery read when the class
\* counter holds ctr: Subquery.__counter += 1, then its value
SubqueryCounter(ctr) == ctr + 1

\* '_s%x' % self.counter
AliasText(k) == << "_", "s" >> \o Hex(k)

Rendered(ast, ctr, minted0, err) == [ast |-> ast, ctr |-> ctr, minted |-> minted0, err |-> err]

Cmp(k, v) == [t |-> "cmp", k |-> k, v |-> v]

\* heading.as_sql: the select list, each column with the expression it reads
AsSql(hd) ==
    [i \in 1..Len(hd) |->
        [name |-> hd[i].name, expr |-> IF hd[i].expr = "" THEN hd[i].name ELSE hd[i].expr]]

PlainCols(names) == [i \in 1..Len(names) |-> [name |-> names[i], expr |-> names[i]]]

\* make_condition of where_clause, for the node whose heading is hd
MakeCondition(hd, arg) ==
    CASE arg.t = "dict" ->
            [err |-> "",
             cond |-> [t |-> "and",
                       items |-> {Cmp(k, arg.m[k]) : k \in DOMAIN arg.m \cap NameSet(hd)}]]
      [] arg.t = "void" ->
            [err |-> "",
             cond |-> [t |-> "and", items |-> {Cmp(k, arg.m[k]) : k \in DOMAIN arg.m}]]
      [] OTHER -> [err |-> "DataJointError", cond |-> [t |-> "and", items |-> {}]]

\* [make_condition(q) for q in r], joined by ') OR ('
OrConditions(hd, items) ==
    LET made == [i \in 1..Len(items) |-> MakeCondition(hd, items[i])]
    IN [err |-> IF \E i \in 1..Len(items) : made[i].err # "" THEN "DataJointError" ELSE "",
        cond |-> [t |-> "or", items |-> [i \in 1..Len(items) |-> made[i].cond]]]

Negated(negate, cond) == IF negate THEN [t |-> "not", c |-> cond] ELSE cond

RECURSIVE from_clause(_, _, _)
RECURSIVE where_clause(_, _, _)
RECURSIVE make_select(_, _, _, _)
RECURSIVE Conditions(_, _, _, _)

\* Join.from_clause: '%s NATURAL %sJOIN %s' of the two rendered arguments
JoinText(left, f1, f2) ==
    Rendered(IF f2.err # "" THEN <<>>
             ELSE [t |-> "join", l |-> f1.ast, r |-> f2.ast, left |-> left,
                   cols |-> f1.ast.cols \cup f2.ast.cols],
             f2.ctr, f1.minted \o f2.minted, f2.err)

\* Join.from_clause once _arg1 is rendered as f1: _arg2 is rendered next
JoinFrom(h, x, f1) ==
    IF f1.err # "" THEN f1
    ELSE JoinText(x.left, f1, from_clause(h, x.arg2, f1.ctr))

\* Subquery.from_clause once the argument's make_select is rendered as s:
\* the alias is minted after it
SubqueryFrom(s) ==
    IF s.err # "" THEN s
    ELSE Rendered([t |-> "sub", sel |-> s.ast, alias |-> AliasText(SubqueryCounter(s.ctr)),
                   cols |-> {s.ast.cols[i].name : i \in 1..Len(s.ast.cols)}],
                  SubqueryCounter(s.ctr),
                  Append(s.minted, AliasText(SubqueryCounter(s.ctr))), "")

\* the from_clause property of each node kind
from_clause(h, n, ctr) ==
    CASE h.nodes[n].kind = "Base" ->
            Rendered([t |-> "table", name |-> h.nodes[n].table,
                      cols |-> NameSet(TableHeading(h.nodes[n].table))], ctr, <<>>, "")
      [] h.nodes[n].kind = "Join" ->
            JoinFrom(h, h.nodes[n], from_clause(h, h.nodes[n].arg1, ctr))
      [] h.nodes[n].kind = "Projection" -> from_clause(h, h.nodes[n].arg1, ctr)
      [] OTHER ->
            SubqueryFrom(make_select(h, h.nodes[n].arg1,
                                     AsSql(heading(h.nodes, h.nodes[n].arg1)), ctr))

\* a condition made by make_condition, negated when the entry was a Not
Made(negate, c, ctr) == Rendered(Negated(negate, c.cond), ctr, <<>>, c.err)

\* the attribute names of self's heading that r's heading has too
CommonAttributes(h, n, r) ==
    SelectSeq(Names(heading(h.nodes, n)), LAMBDA q : q \in NameSet(heading(h.nodes, r.n)))

\* '(%s) %sin (SELECT %s FROM %s%s)' of the rendered from and where clauses
InText(common, negate, f, w) ==
    Rendered([t |-> "in", cols |-> common, negate |-> negate,
              sel |-> [cols |-> PlainCols(common), from |-> f.ast, where |-> w.ast]],
             w.ctr, f.minted \o w.minted, w.err)

\* the condition for a relation r once r.from_clause is rendered as f:
\* r.where_clause is rendered next
InFrom(h, n, negate, r, f) ==
    IF f.err # "" THEN f
    ELSE InText(CommonAttributes(h, n, r), negate, f, where_clause(h, r.n, f.ctr))

\* one turn of the loop of where_clause: r is the entry with its Not taken
\* off.  An entry of no handled type reaches the assert unchanged: a str
\* passes it and is used as the condition, anything else fails it
ConditionOf(h, n, negate, r, ctr) ==
    CASE r.t \in {"dict", "void"} -> Made(negate, MakeCondition(heading(h.nodes, n), r), ctr)
      [] r.t \in {"ndarray", "list"} ->
            Made(negate, OrConditions(heading(h.nodes, n), r.items), ctr)
      [] r.t = "rel" -> InFrom(h, n, negate, r, from_clause(h, r.n, ctr))
      [] r.t = "str" -> Rendered(Negated(negate, [t |-> "raw", s |-> r.s]), ctr, <<>>, "")
      [] OTHER -> Rendered(<<>>, ctr, <<>>, "AssertionError")

Condition(h, n, entry, ctr) ==
    ConditionOf(h, n, entry.t = "Not",
                IF entry.t = "Not" THEN entry.restriction ELSE entry, ctr)

\* conditions.append: the condition one, then those of the later entries
Appended(one, rest) ==
    Rendered(IF rest.err # "" THEN <<>> ELSE << one.ast >> \o rest.ast,
             rest.ctr, one.minted \o rest.minted, rest.err)

AfterCondition(h, n, i, one) ==
    IF one.err # "" THEN one
    ELSE Appended(one, Conditions(h, n, i + 1, one.ctr))

\* the loop of where_clause over self.restrictions, from entry i on
Conditions(h, n, i, ctr) ==
    IF i > Len(restrictions(h, n)) THEN Rendered(<<>>, ctr, <<>>, "")
    ELSE AfterCondition(h, n, i, Condition(h, n, restrictions(h, n)[i], ctr))

\* the where_clause property: the AND-joined conditions (none: no WHERE)
where_clause(h, n, ctr) == Conditions(h, n, 1, ctr)

\* 'SELECT %s FROM %s%s' of the rendered from and where clauses
SelectText(cols, f, w) ==
    Rendered([cols |-> cols, from |-> f.ast, where |-> w.ast],
             w.ctr, f.minted \o w.minted, w.err)

\* make_select once self.from_clause is rendered as f: self.where_clause
\* is rendered next
SelectFrom(h, n, cols, f) ==
    IF f.err # "" THEN f
    ELSE SelectText(cols, f, where_clause(h, n, f.ctr))

\* make_select with the given select list
make_select(h, n, cols, ctr) == SelectFrom(h, n, cols, from_clause(h, n, ctr))

(***************************************************************************)
(* Execution: what connection.query returns for a compiled statement, by   *)
(* SQL's rules (three-valued conditions, NATURAL [LEFT] JOIN, derived      *)
(* tables).  Rows are functions from column names to values; a row set is  *)
(* a set, since every select list of this program keeps the primary key.   *)
(***************************************************************************)
\* the condition the SQL parser reads off a raw condition text
SqlParse(s) == IF s = "a=1" THEN Cmp("a", "1") ELSE Cmp(s, "1")

\* the names a FROM source goes by: table names and derived-table aliases
RECURSIVE Sources(_)
Sources(f) ==
    CASE f.t = "table" -> {<< f.name >>}
      [] f.t = "sub" -> {f.alias}
      [] OTHER -> Sources(f.l) \cup Sources(f.r)

RECURSIVE CondOK(_, _)
RECURSIVE FromOK(_)
RECURSIVE SelectOK(_)

\* whether the server accepts a condition over the columns cols
CondOK(c, cols) ==
    CASE c.t = "cmp" -> c.k \in cols
      [] c.t = "and" -> c.items # {} /\ \A x \in c.items : CondOK(x, cols)
      [] c.t = "or" -> Len(c.items) > 0 /\ \A i \in 1..Len(c.items) : CondOK(c.items[i], cols)
      [] c.t = "not" -> CondOK(c.c, cols)
      [] c.t = "raw" -> CondOK(SqlParse(c.s), cols)
      [] OTHER -> /\ Len(c.cols) > 0
                  /\ \A i \in 1..Len(c.cols) : c.cols[i] \in cols
                  /\ SelectOK(c.sel)

FromOK(f) ==
    CASE f.t = "table" -> TRUE
      [] f.t = "sub" -> SelectOK(f.sel)
      [] OTHER -> FromOK(f.l) /\ FromOK(f.r) /\ Sources(f.l) \cap Sources(f.r) = {}

SelectOK(sel) ==
    /\ FromOK(sel.from)
    /\ \A i \in 1..Len(sel.cols) : sel.cols[i].expr \in sel.from.cols
    /\ \A i \in 1..Len(sel.where) : CondOK(sel.where[i], sel.from.cols)

Not3(v) == CASE v = "T" -> "F" [] v = "F" -> "T" [] OTHER -> "U"

And3(vs) == IF "F" \in vs THEN "F" ELSE IF "U" \in vs THEN "U" ELSE "T"

Or3(vs) == IF "T" \in vs THEN "T" ELSE IF "U" \in vs THEN "U" ELSE "F"

Eq3(x, y) == IF x = NULL \/ y = NULL THEN "U" ELSE IF x = y THEN "T" ELSE "F"

\* L NATURAL [LEFT] JOIN R, of rows over the columns lcols and rcols
NaturalJoin(L, lcols, R, rcols, left) ==
    LET Match(x, y) == \A k \in lcols \cap rcols : Eq3(x[k], y[k]) = "T"
        Merge(x, y) == [k \in lcols \cup rcols |-> IF k \in lcols THEN x[k] ELSE y[k]]
        Padded(x) == [k \in lcols \cup rcols |-> IF k \in lcols THEN x[k] ELSE NULL]
    IN {Merge(p[1], p[2]) : p \in {q \in L \X R : Match(q[1], q[2])}}
       \cup (IF left
             THEN {Padded(x) : x \in {z \in L : \A y \in R : ~Match(z, y)}}
             ELSE {})

RECURSIVE Eval(_, _, _)
RECURSIVE FromRows(_, _)
RECURSIVE Filtered(_, _)
RECURSIVE SelectRows(_, _)

\* the truth value of a condition on a row
Eval(d, c, row) ==
    CASE c.t = "cmp" -> Eq3(row[c.k], c.v)
      [] c.t = "and" -> And3({Eval(d, x, row) : x \in c.items})
      [] c.t = "or" -> Or3({Eval(d, c.items[i], row) : i \in 1..Len(c.items)})
      [] c.t = "not" -> Not3(Eval(d, c.c, row))
      [] c.t = "raw" -> Eval(d, SqlParse(c.s), row)
      [] OTHER ->
            LET found == Or3({And3({Eq3(row[c.cols[i]], s[c.cols[i]]) : i \in 1..Len(c.cols)})
                              : s \in SelectRows(d, c.sel)})
            IN IF c.negate THEN Not3(found) ELSE found

\* the rows of a FROM source
FromRows(d, f) ==
    CASE f.t = "table" -> d[f.name]
      [] f.t = "sub" -> SelectRows(d, f.sel)
      [] OTHER -> NaturalJoin(FromRows(d, f.l), f.l.cols, FromRows(d, f.r), f.r.cols, f.left)

\* the rows of the FROM source that pass the WHERE clause
Filtered(d, sel) ==
    {row \in FromRows(d, sel.from) :
        \A i \in 1..Len(sel.where) : Eval(d, sel.where[i], row) = "T"}

\* the rows a SELECT returns
SelectRows(d, sel) ==
    {[k \in {sel.cols[i].name : i \in 1..Len(sel.cols)} |->
        row[sel.cols[CHOOSE i \in 1..Len(sel.cols) : sel.cols[i].name = k].expr]]
     : row \in Filtered(d, sel)}

(***************************************************************************)
(* Retrieval.                                                              *)
(***************************************************************************)
\* blob.unpack: the value a packed blob decodes to
Unpack(v) ==
    CASE v = "P1" -> "1"
      [] v = "P2" -> "2"
      [] OTHER -> v

\* connection.query on a rendered statement: the error raised ("" for
\* none; a statement the server rejects fails in the connection, and that
\* failure reaches the caller unchanged) and the rows that passed WHERE
Query(d, r) ==
    IF r.err # "" THEN [err |-> r.err, found |-> {}]
    ELSE IF ~SelectOK(r.ast) THEN [err |-> "SQLError", found |-> {}]
    ELSE [err |-> "", found |-> Filtered(d, r.ast)]

\* one row of the SELECT's output, from a row that passed WHERE
Output(sel, row) ==
    [k \in {sel.cols[i].name : i \in 1..Len(sel.cols)} |->
        row[sel.cols[CHOOSE i \in 1..Len(sel.cols) : sel.cols[i].name = k].expr]]

\* RelationalOperand.__len__: make_select('count(*)'), then fetchone()[0]
LenOp(h, d, n, ctr) ==
    LET r == make_select(h, n, <<>>, ctr)
        q == Query(d, r)
    IN [err |-> q.err, n |-> IF q.err = "" THEN Cardinality(q.found) ELSE 0 - 1,
        ctr |-> r.ctr, minted |-> r.minted]

\* the rows of node n as fetch would return them before unpacking
RowsOf(h, d, n) ==
    LET r == make_select(h, n, AsSql(heading(h.nodes, n)), 0)
        q == Query(d, r)
    IN [err |-> q.err, rows |-> IF q.err = "" THEN {Output(r.ast, x) : x \in q.found} ELSE {}]

\* len(node), or -1 when the query fails
CountOf(h, d, n) == LenOp(h, d, n, 0).n

NoRow == <<>>

\* cursor.fetchone() at position i of the cursor's rows
FetchOne(cur, i) == IF i <= Len(cur) THEN cur[i] ELSE NoRow

\* Python's truth value of what fetchone returned: None and {} are false
Truthy(row) == DOMAIN row # {}

\* fetch1 as it would be without the second fetchone: the first row, when
\* there is one
Fetch1First(hd, cur) ==
    IF ~Truthy(FetchOne(cur, 1)) THEN [err |-> "DataJointError", row |-> NoRow]
    ELSE [err |-> "",
          row |-> [k \in NameSet(hd) |->
                      IF HeadingAttr(hd, k).blob THEN Unpack(FetchOne(cur, 1)[k])
                      ELSE FetchOne(cur, 1)[k]]]

\* RelationalOperand.fetch1 on the cursor's rows cur (dictionaries)
Fetch1Rows(hd, cur) ==
    LET ret == FetchOne(cur, 1) IN
    IF ~Truthy(ret) \/ Truthy(FetchOne(cur, 2))
    THEN [err |-> "DataJointError", row |-> NoRow]
    ELSE [err |-> "",
          row |-> [k \in NameSet(hd) |->
                      IF HeadingAttr(hd, k).blob THEN Unpack(ret[k]) ELSE ret[k]]]

(***************************************************************************)
(* The database: table A(id, a) and table B(id, b), id the primary key of  *)
(* both, a and b nullable, b a blob.                                       *)
(***************************************************************************)
Ids == {"1", "2"}

Absent == "absent"

\* the row sets of a table whose second column takes the values vals
Tables(col, vals) ==
    {{[k \in {"id", col} |-> IF k = "id" THEN i ELSE f[i]] : i \in {j \in Ids : f[j] # Absent}}
     : f \in [Ids -> vals \cup {Absent}]}

DBs == {[A |-> ta, B |-> tb] : ta \in Tables("a", {"1", NULL}), tb \in Tables("b", {"P1"})}

\* the database of the spec's example scenarios, cut to the model's values
ExampleDB ==
    [A |-> {[id |-> "1", a |-> "1"], [id |-> "2", a |-> NULL]},
     B |-> {[id |-> "1", b |-> "P1"]}]

(***************************************************************************)
(* The state machine.  last records the operation that acted last: its     *)
(* operands, the node it returned (0 for None), the error it raised and    *)
(* what a retrieval returned.                                              *)
(***************************************************************************)
Last(op, self, other, c, ret, err, n, row) ==
    [op |-> op, self |-> self, other |-> other, c |-> c, ret |-> ret, err |-> err,
     n |-> n, row |-> row]

NodeIds == 1..Len(nodes)

H == Heap(nodes, lists)

\* the nodes a node refers to: its arguments and the relations in its
\* restriction list
Refs(h, k) ==
    ({h.nodes[k].arg1, h.nodes[k].arg2} \ {0})
    \cup {restrictions(h, k)[i].n
            : i \in {j \in 1..Len(restrictions(h, k)) : restrictions(h, k)[j].t = "rel"}}
    \cup {restrictions(h, k)[i].restriction.n
            : i \in {j \in 1..Len(restrictions(h, k)) :
                       /\ restrictions(h, k)[j].t = "Not"
                       /\ restrictions(h, k)[j].restriction.t = "rel"}}

RECURSIVE ReachFrom(_, _)
ReachFrom(h, S) ==
    LET T == S \cup UNION {Refs(h, k) : k \in S}
    IN IF T = S THEN S ELSE ReachFrom(h, T)

\* no node restricts or contains itself: on a node that does, where_clause
\* and from_clause do not return, so the model leaves such calls out
Acyclic(h) == \A k \in 1..Len(h.nodes) : k \notin ReachFrom(h, Refs(h, k))

\* the model's bounds on what an operator may allocate
Fits(r) ==
    /\ Len(r.nodes) <= MaxNodes
    /\ \A l \in 1..Len(r.lists) : Len(r.lists[l]) <= MaxLen

\* one more operation, within the bound on how many the model follows
Step(bound) ==
    /\ steps < bound
    /\ steps' = steps + 1

Commit(r, op, self, c, bound) ==
    /\ Step(bound)
    /\ Fits(r)
    /\ Acyclic(r)
    /\ nodes' = r.nodes
    /\ lists' = r.lists
    /\ last' = Last(op, self, 0, c, r.ret, "", 0, NoRow)
    /\ UNCHANGED <<counter, minted, db>>

\* S = R & c
And(U, bound) == \E n \in NodeIds, c \in U : Commit(AndOp(H, n, c), "and", n, c, bound)

\* R &= c
IAnd(U, bound) == \E n \in NodeIds, c \in U : Commit(IAndOp(H, n, c), "iand", n, c, bound)

\* S = R - c
Sub(U, bound) == \E n \in NodeIds, c \in U : Commit(SubOp(H, n, c), "sub", n, c, bound)

\* R -= c
ISub(U, bound) == \E n \in NodeIds, c \in U : Commit(ISubOp(H, n, c), "isub", n, c, bound)

\* Heading.project accepts the arguments: every attribute named is one of
\* the heading's and no alias is
Projectable(hd, attributes) ==
    \A i \in 1..Len(attributes) :
        /\ attributes[i].expr \in NameSet(hd)
        /\ attributes[i].alias \notin NameSet(hd)

\* P = R.project(*attributes)
Project(args, bound) ==
    \E n \in NodeIds, attributes \in args :
        /\ Projectable(heading(nodes, n), attributes)
        /\ Commit(ProjectOp(H, n, attributes), "project", n, None, bound)

\* J = Join(R, other, left); R * other is Join(R, other); other = 0 stands
\* for a value that is not a relation
Join(lefts, bound) ==
    \E n \in NodeIds, other \in NodeIds \cup {0}, left \in lefts :
        /\ Step(bound)
        /\ IF JoinError(H, n, other) # ""
           THEN /\ last' = Last("join", n, other, None, 0, JoinError(H, n, other), 0, NoRow)
                /\ UNCHANGED <<nodes, lists, counter, minted, db>>
           ELSE LET r == JoinInit(H, n, other, left) IN
                /\ Fits(r)
                /\ nodes' = r.nodes
                /\ lists' = r.lists
                /\ last' = Last("join", n, other, None, r.ret, "", 0, NoRow)
                /\ UNCHANGED <<counter, minted, db>>

\* RelationalOperand.aggregate past its check: the Projection over the left
\* join is built and its heading asked to set the primary key, but the
\* method has no return statement: the caller gets None and the objects
\* built are dropped
AggregateOp(h, n, group, attributes) ==
    LET j == JoinInit(h, n, group, TRUE)
        ret == ProjectionInit(Heap(j.nodes, j.lists), j.ret, attributes)
    IN Result(h.nodes, h.lists, 0)

\* the check of aggregate, then those of the Join it builds
AggregateError(h, n, group) ==
    IF group = 0 THEN "DataJointError" ELSE JoinError(h, n, group)

\* R.aggregate(group, *attributes); group = 0 stands for a value that is
\* not a relation
Aggregate(args, bound) ==
    \E n \in NodeIds, group \in NodeIds \cup {0}, attributes \in args :
        /\ Step(bound)
        /\ AggregateError(H, n, group) = ""
              => Projectable(HeadingJoin(heading(nodes, n), heading(nodes, group)), attributes)
        /\ last' = Last("aggregate", n, group, None,
                        IF AggregateError(H, n, group) # "" THEN 0
                        ELSE AggregateOp(H, n, group, attributes).ret,
                        AggregateError(H, n, group), 0, NoRow)
        /\ UNCHANGED <<nodes, lists, counter, minted, db>>

\* len(R)
Len_(bound) ==
    \E n \in NodeIds :
        LET r == LenOp(H, db, n, counter) IN
        /\ Step(bound)
        /\ r.ctr <= MaxCounter
        /\ counter' = r.ctr
        /\ minted' = minted \o r.minted
        /\ last' = Last("len", n, 0, None, 0, r.err, r.n, NoRow)
        /\ UNCHANGED <<nodes, lists, db>>

\* the orders in which a cursor may yield the rows
RECURSIVE Orders(_)
Orders(S) ==
    IF S = {} THEN {<<>>}
    ELSE UNION {{<< x >> \o t : t \in Orders(S \ {x})} : x \in S}

\* R.fetch1(); last.n is the number of rows the cursor held
Fetch1(bound) ==
    \E n \in NodeIds :
        LET hd == heading(nodes, n)
            r == make_select(H, n, AsSql(hd), counter)
            q == Query(db, r)
        IN
        /\ Step(bound)
        /\ r.ctr <= MaxCounter
        /\ counter' = r.ctr
        /\ minted' = minted \o r.minted
        /\ IF q.err # ""
           THEN last' = Last("fetch1", n, 0, None, 0, q.err, 0 - 1, NoRow)
           ELSE \E order \in Orders(q.found) :
                  LET cur == [i \in 1..Len(order) |-> Output(r.ast, order[i])]
                      f == Fetch1Rows(hd, cur)
                  IN last' = Last("fetch1", n, 0, None, 0, f.err, Len(cur), f.row)
        /\ UNCHANGED <<nodes, lists, db>>

(***************************************************************************)
(* Restriction values the operators are called with.                       *)
(***************************************************************************)
IdIs1 == Dict([id |-> "1"])

AIs1 == Dict([a |-> "1"])

BIsP1 == Dict([b |-> "P1"])

XIs1 == Dict([x |-> "1"])

EmptyDict == Dict(<<>>)

Mappings == {IdIs1, AIs1, BIsP1, XIs1, EmptyDict}

Relations == {Rel(n) : n \in NodeIds}

\* the objects of the heap h, no statement compiled in this session yet
InitFrom(h, dbs, counters) ==
    /\ nodes = h.nodes
    /\ lists = h.lists
    /\ counter \in counters
    /\ minted = [i \in 1..counter |-> AliasText(i)]
    /\ db \in dbs
    /\ last = Last("init", 0, 0, None, 0, "", 0, NoRow)
    /\ steps = 0

\* base relations only
InitWith(bases, dbs, counters) == InitFrom(Heap(bases, <<>>), dbs, counters)

(***************************************************************************)
(* Spec: the operators that build trees, two operations deep, over every   *)
(* database of the model.                                                  *)
(***************************************************************************)
ProjectArgs == { <<>>, << Plain("a") >>, << Alias("a", "x") >>, << Alias("b", "y") >> }

Restrictions ==
    {None, IdIs1, AIs1, BIsP1, EmptyDict, List(<< IdIs1, AIs1 >>), Str("a=1"), IntVal(5)}
    \cup Relations

Init == InitWith(<< Base("A", 1), Base("B", 1) >>, DBs, {0})

Next ==
    \/ And(Restrictions, MaxOps)
    \/ IAnd(Restrictions, MaxOps)
    \/ Sub(Restrictions, MaxOps)
    \/ ISub(Restrictions, MaxOps)
    \/ Project(ProjectArgs, MaxOps)
    \/ Join(BOOLEAN, MaxOps)
    \/ Aggregate(ProjectArgs, MaxOps)
    \/ Len_(MaxOps)
    \/ Fetch1(MaxOps)

Spec == Init /\ [][Next]_vars

(***************************************************************************)
(* C1.  R & C and R - C partition R: for a mapping C, after S = R - C, the *)
(* three statements execute, count(R & C) + count(R - C) = count(R), and   *)
(* no row is selected by both.                                             *)
(***************************************************************************)
C1_Partition ==
    (last.op = "sub" /\ last.c.t = "dict") =>
        LET R == last.self
            a == AndOp(H, R, last.c)
            ha == Heap(a.nodes, a.lists)
        IN /\ CountOf(H, db, R) >= 0
           /\ CountOf(ha, db, a.ret) >= 0
           /\ CountOf(H, db, last.ret) >= 0
           /\ CountOf(ha, db, a.ret) + CountOf(H, db, last.ret) = CountOf(H, db, R)
           /\ RowsOf(ha, db, a.ret).rows \cap RowsOf(H, db, last.ret).rows = {}

(***************************************************************************)
(* C3.  After Join(a, b) each child of the join is its own operand: the    *)
(* operand itself when its heading is not computed, a Subquery of that     *)
(* operand when it is.                                                     *)
(***************************************************************************)
ChildOf(child, operand) ==
    IF Computed(heading(nodes, operand))
    THEN nodes[child].kind = "Subquery" /\ nodes[child].arg1 = operand
    ELSE child = operand

C3_JoinChildren ==
    (last.op = "join" /\ last.err = "") =>
        /\ nodes[last.ret].kind = "Join"
        /\ ChildOf(nodes[last.ret].arg1, last.self)
        /\ ChildOf(nodes[last.ret].arg2, last.other)

(***************************************************************************)
(* C4.  self.aggregate(group, ...) returns a Projection over               *)
(* Join(self, group, left = true) whose primary key is that of self, and   *)
(* fails with the domain error when group is not a relation.               *)
(***************************************************************************)
C4_Aggregate ==
    last.op = "aggregate" =>
        IF last.other = 0 THEN last.err = "DataJointError"
        ELSE last.err = "" =>
               /\ last.ret # 0
               /\ nodes[last.ret].kind = "Projection"
               /\ nodes[nodes[last.ret].arg1].kind = "Join"
               /\ nodes[nodes[last.ret].arg1].left
               /\ ChildOf(nodes[nodes[last.ret].arg1].arg1, last.self)
               /\ ChildOf(nodes[nodes[last.ret].arg1].arg2, last.other)
               /\ PrimaryKey(heading(nodes, last.ret)) = PrimaryKey(heading(nodes, last.self))

(***************************************************************************)
(* C5.  Restricting R by a sequence of mappings m1..mn (n >= 1), with &    *)
(* or in place, selects exactly the rows of R that satisfy at least one    *)
(* mi: the union of what R & mi selects.  A step property: R is read       *)
(* before the step, the restricted node after it.                          *)
(***************************************************************************)
IsMappingList(c) ==
    /\ c.t = "list"
    /\ Len(c.items) >= 1
    /\ \A i \in 1..Len(c.items) : c.items[i].t = "dict"

\* the rows of R that satisfy the mapping m
Satisfying(h, d, R, m) ==
    LET a == AndOp(h, R, m) IN RowsOf(Heap(a.nodes, a.lists), d, a.ret).rows

C5_SequenceIsOr ==
    [][(last'.op \in {"and", "iand"} /\ IsMappingList(last'.c)
          /\ RowsOf(H', db', last'.ret).err = "")
        => RowsOf(H', db', last'.ret).rows
             = UNION {Satisfying(H, db, last'.self, last'.c.items[i])
                      : i \in 1..Len(last'.c.items)}]_vars

(***************************************************************************)
(* C6.  Compiling the where clause of a node whose restriction list holds  *)
(* a value that is not a mapping, a record, a sequence of mappings, a      *)
(* relation or a Negation of one of these ends in DataJointError: len of   *)
(* such a node raises it.                                                  *)
(***************************************************************************)
IsMappingOrRecord(r) == r.t \in {"dict", "void"}

IsRestriction(r) ==
    \/ IsMappingOrRecord(r)
    \/ r.t = "rel"
    \/ r.t \in {"list", "ndarray"} /\ \A i \in 1..Len(r.items) : IsMappingOrRecord(r.items[i])

IsValid(r) ==
    IF r.t = "Not" THEN IsRestriction(r.restriction) ELSE IsRestriction(r)

HoldsInvalid(n) ==
    \E i \in 1..Len(restrictions(H, n)) : ~IsValid(restrictions(H, n)[i])

C6_InvalidRaisesDomainError ==
    (last.op = "len" /\ HoldsInvalid(last.self)) => last.err = "DataJointError"

(***************************************************************************)
(* C7.  Hoisting preserves the rows: when A, B and Join(A, B) execute, the *)
(* rows of Join(A, B) are the natural join (left outer when left is true)  *)
(* of the rows A selects with the rows B selects.                          *)
(***************************************************************************)
C7_HoistingPreservesRows ==
    (/\ last.op = "join" /\ last.err = ""
     /\ RowsOf(H, db, last.self).err = ""
     /\ RowsOf(H, db, last.other).err = ""
     /\ RowsOf(H, db, last.ret).err = "")
    => RowsOf(H, db, last.ret).rows
         = NaturalJoin(RowsOf(H, db, last.self).rows, NameSet(heading(nodes, last.self)),
                       RowsOf(H, db, last.other).rows, NameSet(heading(nodes, last.other)),
                       nodes[last.ret].left)

(***************************************************************************)
(* SpecRestrict: the restriction operators and project on one base         *)
(* relation, MaxRestrictOps operations deep.                               *)
(***************************************************************************)
MaxRestrictOps == 3

RestrictValues == {None, IdIs1, List(<< IdIs1, AIs1 >>)}

RestrictProjectArgs == { << Plain("a") >>, << Alias("a", "x") >> }

InitRestrict == InitWith(<< Base("A", 1) >>, {ExampleDB}, {0})

NextRestrict ==
    \/ And(RestrictValues, MaxRestrictOps)
    \/ IAnd(RestrictValues, MaxRestrictOps)
    \/ Sub(RestrictValues, MaxRestrictOps)
    \/ ISub(RestrictValues, MaxRestrictOps)
    \/ Project(RestrictProjectArgs, MaxRestrictOps)

SpecRestrict == InitRestrict /\ [][NextRestrict]_vars

IsComputedProjection(ns, n) == ns[n].kind = "Projection" /\ Computed(heading(ns, n))

\* the entries the operator op adds to a list for the restriction c
Entries(op, c) ==
    CASE c.t = "None" /\ op \in {"and", "iand"} -> <<>>
      [] c.t = "list" /\ op \in {"and", "iand"} -> c.items
      [] op \in {"sub", "isub"} -> << Not(c) >>
      [] OTHER -> << c >>

\* the lists of the nodes that existed before the step are as they were
OldListsKept == \A k \in 1..Len(nodes) : restrictions(H', k) = restrictions(H, k)

(***************************************************************************)
(* C2.  For a node R that is not a Projection with a computed heading,     *)
(* S = R & c and S = R - c return a new node with a list object of its     *)
(* own, holding R's entries followed by what c contributes (c itself;      *)
(* Not(c) for -; the elements of c when & is given a list; nothing when &  *)
(* is given None), and leave the list of R and of every earlier node as    *)
(* it was; R &= c and R -= c return R with the contribution added to R's   *)
(* own list.  For a Projection with a computed heading both forms return a *)
(* new Subquery whose list holds the contribution only and leave R's list  *)
(* as it was.  A step property, so it holds after any earlier operations.  *)
(***************************************************************************)
C2_RestrictLists ==
    [][last'.op \in {"and", "sub", "iand", "isub"} =>
        LET R == last'.self
            S == last'.ret
            old == restrictions(H, R)
            e == Entries(last'.op, last'.c)
        IN IF IsComputedProjection(nodes, R)
           THEN /\ S > Len(nodes)
                /\ nodes'[S].kind = "Subquery"
                /\ restrictions(H', S) = e
                /\ OldListsKept
           ELSE IF last'.op \in {"and", "sub"}
           THEN /\ S > Len(nodes)
                /\ nodes'[S].rl # nodes'[R].rl
                /\ restrictions(H', S) = old \o e
                /\ OldListsKept
           ELSE /\ S = R
                /\ restrictions(H', R) = old \o e]_vars

\* C2's case: a copy made from a node restricted in place before, which holds
\* the earlier entry followed by the new one while the node keeps its own
C2_Witness ==
    /\ last.op = "and"
    /\ steps >= 2
    /\ nodes[last.self].kind = "Base"
    /\ Len(restrictions(H, last.self)) = 1
    /\ restrictions(H, last.ret) = restrictions(H, last.self) \o << last.c >>

\* C2 as stated: for every node and every restriction the new list is the
\* old one followed by c, and the in-place form appends c
C2_AsStated ==
    [][last'.op \in {"and", "sub", "iand", "isub"} =>
        LET R == last'.self
            S == last'.ret
            old == restrictions(H, R)
            c == IF last'.op \in {"sub", "isub"} THEN Not(last'.c) ELSE last'.c
        IN IF last'.op \in {"and", "sub"}
           THEN /\ S # R
                /\ restrictions(H', S) = old \o << c >>
                /\ restrictions(H', R) = old
           ELSE restrictions(H', R) = old \o << c >>]_vars

(***************************************************************************)
(* SpecWrap: restrictions of a Projection that renames, over the rows a    *)
(* table may hold, MaxWrapOps operations deep.                             *)
(***************************************************************************)
MaxWrapOps == 3

WrapValues == {None, IdIs1, XIs1, AIs1, Rel(1)}

WrapProjectArgs == { << Alias("a", "x") >> }

WrapDBs == {[A |-> ta, B |-> {}] : ta \in Tables("a", {"1", NULL})}

InitWrap == InitWith(<< Base("A", 1) >>, WrapDBs, {0})

NextWrap ==
    \/ Project(WrapProjectArgs, MaxWrapOps)
    \/ And(WrapValues, MaxWrapOps)
    \/ Sub(WrapValues, MaxWrapOps)

SpecWrap == InitWrap /\ [][NextWrap]_vars

\* a Subquery over a Projection whose heading is computed
IsWrapper(ns, n) == ns[n].kind = "Subquery" /\ IsComputedProjection(ns, ns[n].arg1)

\* R & c, or R - c, as the operator op would return it from the heap h
Restricted(h, op, R, c) == IF op = "sub" THEN SubOp(h, R, c) ELSE AndOp(h, R, c)

\* the rows and the error of the node an operator returned
RowsOfResult(r, d) == RowsOf(Heap(r.nodes, r.lists), d, r.ret)

\* the mapping that holds the pairs of both mappings
Merged(m1, m2) ==
    [k \in DOMAIN m1 \cup DOMAIN m2 |-> IF k \in DOMAIN m1 THEN m1[k] ELSE m2[k]]

Compatible(m1, m2) == \A k \in DOMAIN m1 \cap DOMAIN m2 : m1[k] = m2[k]

(***************************************************************************)
(* C8.  For a Projection P whose heading is computed, P & c1 is a new      *)
(* Subquery over a copy of P that holds c1, and (P & c1) & c2 is a new     *)
(* Subquery over the same copy that holds c1 and c2, not a second          *)
(* wrapper; neither adds to the list of P or of any earlier node.  The     *)
(* twice-restricted node executes exactly when P & c1 and P & c2 both do,  *)
(* and then its rows are the rows of P & c1 that are also rows of P & c2;  *)
(* for two mappings that agree, they are the rows of P restricted once by  *)
(* the mapping that holds the pairs of both.  The same holds with - in     *)
(* place of &.                                                             *)
(***************************************************************************)
C8_WrapTwice ==
    [][last'.op \in {"and", "sub"} =>
        LET R == last'.self
            S == last'.ret
            e == Entries(last'.op, last'.c)
            P == nodes[R].arg1
            once == Restricted(H, last'.op, P, last'.c)
        IN /\ IsComputedProjection(nodes, R) =>
                /\ S > Len(nodes)
                /\ nodes'[S].kind = "Subquery"
                /\ nodes'[S].arg1 > Len(nodes)
                /\ nodes'[nodes'[S].arg1] = [nodes[R] EXCEPT !.rl = nodes'[nodes'[S].arg1].rl]
                /\ restrictions(H', nodes'[S].arg1) = restrictions(H, R)
                /\ restrictions(H', S) = e
                /\ OldListsKept
           /\ IsWrapper(nodes, R) =>
                /\ S > Len(nodes)
                /\ nodes'[S].kind = "Subquery"
                /\ nodes'[S].arg1 = P
                /\ restrictions(H', S) = restrictions(H, R) \o e
                /\ OldListsKept
                /\ RowsOf(H', db, S).err = ""
                      <=> (RowsOf(H, db, R).err = "" /\ RowsOfResult(once, db).err = "")
                /\ RowsOf(H', db, S).err = "" =>
                      RowsOf(H', db, S).rows
                        = RowsOf(H, db, R).rows \cap RowsOfResult(once, db).rows
                /\ (/\ last'.op = "and"
                    /\ last'.c.t = "dict"
                    /\ Len(restrictions(H, R)) = 1
                    /\ restrictions(H, R)[1].t = "dict"
                    /\ Compatible(restrictions(H, R)[1].m, last'.c.m)
                    /\ RowsOf(H', db, S).err = "") =>
                      RowsOf(H', db, S).rows
                        = RowsOfResult(AndOp(H, P, Dict(Merged(restrictions(H, R)[1].m,
                                                               last'.c.m))), db).rows]_vars

\* C8's case: P & {id: 1} restricted again by {x: 1}, with a row selected
C8_Witness ==
    /\ last.op = "and"
    /\ IsWrapper(nodes, last.self)
    /\ restrictions(H, last.ret) = << IdIs1, XIs1 >>
    /\ RowsOf(H, db, last.ret).err = ""
    /\ RowsOf(H, db, last.ret).rows # {}
    /\ RowsOf(H, db, nodes[last.self].arg1).rows # RowsOf(H, db, last.ret).rows

(***************************************************************************)
(* SpecAlias: trees with Subquery nodes, built from A and the Projection   *)
(* P = A.project('a -> x') by join and project and compiled by len,        *)
(* MaxAliasOps operations deep, from a class counter of 0 or of            *)
(* FirstCounter (aliases up to _s<FirstCounter> minted by earlier          *)
(* statements).                                                            *)
(***************************************************************************)
MaxAliasOps == 3

FirstCounter == 14

AliasProjectArgs == { << Plain("x") >>, << Alias("x", "y") >> }

InitAlias ==
    InitFrom(ProjectOp(Heap(<< Base("A", 1) >>, <<>>), 1, << Alias("a", "x") >>),
             {ExampleDB}, {0, FirstCounter})

NextAlias ==
    \/ Project(AliasProjectArgs, MaxAliasOps)
    \/ Join({FALSE}, MaxAliasOps)
    \/ Len_(MaxAliasOps)

SpecAlias == InitAlias /\ [][NextAlias]_vars

\* no alias occurs twice in the sequence
AllDistinct(seq) == \A i, j \in 1..Len(seq) : i # j => seq[i] # seq[j]

(***************************************************************************)
(* C9.  Every step leaves the Subquery counter at least as large as it     *)
(* was, keeps the aliases minted so far and adds only aliases that differ  *)
(* from them and from each other: the aliases a statement mints are        *)
(* pairwise distinct, whatever the number and nesting of its Subquery      *)
(* nodes.                                                                  *)
(***************************************************************************)
C9_AliasesDistinct ==
    [][/\ counter' >= counter
       /\ Len(minted') >= Len(minted)
       /\ SubSeq(minted', 1, Len(minted)) = minted
       /\ Len(minted') - Len(minted) = counter' - counter
       /\ AllDistinct(minted) => AllDistinct(minted')]_vars

\* C9's case: a statement with two Subquery sources compiled after an
\* earlier one, the counter past one hex digit
C9_Witness ==
    /\ last.op = "len"
    /\ nodes[last.self].kind = "Join"
    /\ nodes[nodes[last.self].arg1].kind = "Subquery"
    /\ nodes[nodes[last.self].arg2].kind = "Subquery"
    /\ counter >= 16
    /\ Len(minted) >= FirstCounter + 3
    /\ AllDistinct(minted)

(***************************************************************************)
(* SpecFetch: fetch1 on the tables and on their restrictions, over every   *)
(* database of the model, MaxFetchOps operations deep.                     *)
(***************************************************************************)
MaxFetchOps == 2

FetchValues == {IdIs1, AIs1, EmptyDict}

InitFetch == InitWith(<< Base("A", 1), Base("B", 1) >>, DBs, {0})

NextFetch ==
    \/ And(FetchValues, MaxFetchOps)
    \/ Fetch1(MaxFetchOps)

SpecFetch == InitFetch /\ [][NextFetch]_vars

\* a row as fetch1 returns it: the blob fields decoded
Decoded(hd, row) ==
    [k \in DOMAIN row |-> IF HeadingAttr(hd, k).blob THEN Unpack(row[k]) ELSE row[k]]

(***************************************************************************)
(* C10.  When the query of fetch1 executes, fetch1 returns a row exactly   *)
(* when the cursor held one row, and the row returned is that row with its *)
(* blob fields decoded; when the cursor held no row or more than one,      *)
(* fetch1 raises DataJointError and returns nothing.                       *)
(***************************************************************************)
C10_Fetch1ExactlyOne ==
    (last.op = "fetch1" /\ RowsOf(H, db, last.self).err = "") =>
        /\ last.n = Cardinality(RowsOf(H, db, last.self).rows)
        /\ last.err = "" <=> last.n = 1
        /\ last.n = 1 =>
              last.row \in {Decoded(heading(nodes, last.self), x)
                            : x \in RowsOf(H, db, last.self).rows}
        /\ last.n # 1 => (last.err = "DataJointError" /\ last.row = NoRow)

\* C10's case: fetch1 returned the one row of a restriction of B, its blob
\* decoded, from a table that holds two rows
C10_Witness ==
    /\ last.op = "fetch1"
    /\ last.err = ""
    /\ nodes[last.self].table = "B"
    /\ Cardinality(db.B) = 2
    /\ last.row = [id |-> "1", b |-> "1"]

(***************************************************************************)
(* C11.  No two distinct nodes share one restriction list: for a           *)
(* Projection P built by project on a node A whose heading is not          *)
(* computed, an in-place restriction of P leaves A's restriction list as   *)
(* it was, and an in-place restriction of A leaves P's restriction list as *)
(* it was.  A step property of SpecRestrict, so it covers an A that        *)
(* carried restrictions before project and any sequence of in-place        *)
(* operations after it.                                                    *)
(***************************************************************************)
\* P is a Projection built directly on A, whose heading is not computed
IsProjectionOf(ns, P, A) ==
    /\ ns[P].kind = "Projection"
    /\ ns[P].arg1 = A
    /\ ~Computed(heading(ns, A))

C11_NoSharedList ==
    [][last'.op \in {"iand", "isub"} =>
        \A k \in 1..Len(nodes) :
            (IsProjectionOf(nodes, last'.self, k) \/ IsProjectionOf(nodes, k, last'.self))
                => restrictions(H', k) = restrictions(H, k)]_vars

(***************************************************************************)
(* SpecProject: project on the tables and on their restrictions by a       *)
(* mapping, over every database of the model, MaxProjectOps operations     *)
(* deep.                                                                   *)
(***************************************************************************)
MaxProjectOps == 2

IdAndAAre1 == Dict([id |-> "1", a |-> "1"])

ProjectValues == {IdIs1, AIs1, IdAndAAre1}

InitProject == InitWith(<< Base("A", 1), Base("B", 1) >>, DBs, {0})

NextProject ==
    \/ And(ProjectValues, MaxProjectOps)
    \/ Project(ProjectArgs, MaxProjectOps)

SpecProject == InitProject /\ [][NextProject]_vars

\* the row of the projection with heading hp that the row x gives: each
\* attribute takes the value of the column it is, or is renamed from
ProjectedRow(hp, x) ==
    [k \in NameSet(hp) |->
        x[IF HeadingAttr(hp, k).expr = "" THEN k ELSE HeadingAttr(hp, k).expr]]

\* every entry of n's list is a mapping on attributes of n's heading
HoldsMappingsOnOwnAttributes(n) ==
    \A i \in 1..Len(restrictions(H, n)) :
        /\ restrictions(H, n)[i].t = "dict"
        /\ DOMAIN restrictions(H, n)[i].m # {}
        /\ DOMAIN restrictions(H, n)[i].m \subseteq NameSet(heading(nodes, n))

(***************************************************************************)
(* C12.  Projection never widens the row set: after P = (R & C).project(L) *)
(* for a mapping C on attributes of R, P executes and its rows are exactly *)
(* the projections of the rows of R & C, also when C constrains an         *)
(* attribute that L leaves out or renames.                                 *)
(***************************************************************************)
C12_ProjectionKeepsRestriction ==
    (/\ last.op = "project"
     /\ restrictions(H, last.self) # <<>>
     /\ HoldsMappingsOnOwnAttributes(last.self)
     /\ RowsOf(H, db, last.self).err = "") =>
        /\ RowsOf(H, db, last.ret).err = ""
        /\ RowsOf(H, db, last.ret).rows
             = {ProjectedRow(heading(nodes, last.ret), x) : x \in RowsOf(H, db, last.self).rows}

====
